---- MODULE Spec2Model ----
(***************************************************************************)
(* vWise: LocalStorageWorkspaceRepository (workspaces and panels persisted *)
(* in localStorage behind two promise caches and two id indices) and the   *)
(* Workspace aggregate (panels, panelStack).                               *)
(*                                                                         *)
(* Objects have identity: a Workspace or Panel object is a handle into     *)
(* wsObjs / panelObjs, distinct from the entity id it carries.  A promise  *)
(* is a settled one (resolved with an object, or rejected) or the pending  *)
(* promise of a load in wsLoads / panelLoads; when a load settles, every   *)
(* holder of its promise sees it settled.                                  *)
(***************************************************************************)
EXTENDS Integers, Sequences, FiniteSets

\* ---------------------------------------------------------------- bounds
MaxWsId == 1
MaxPanelId == 2
MaxWsObj == 2
MaxPanelObj == 2
MaxWsLoad == 2
MaxPanelLoad == 1

\* The ids.  uuid counts the ids in use per kind: UUID.uuid4 gives out the
\* next one, and never an id a caller has made up before (a get of the next
\* id takes it out of uuid4's reach: no entity will ever have it).
WsIds == 1 .. MaxWsId
PanelIds == 1 .. MaxPanelId
WsHandles == 1 .. MaxWsObj
PanelHandles == 1 .. MaxPanelObj
WsLoadIds == 1 .. MaxWsLoad
PanelLoadIds == 1 .. MaxPanelLoad

\* ------------------------------------------------------- small helpers
Range(s) == {s[i] : i \in 1 .. Len(s)}

\* Array.prototype.indexOf: the first position of x in s, 0 when absent
\* (JavaScript's -1).
indexOf(s, x) ==
  IF x \in Range(s) THEN CHOOSE i \in 1 .. Len(s) : s[i] = x /\ \A j \in 1 .. (i - 1) : s[j] # x
  ELSE 0

\* Array.prototype.splice(ix, 1): s without its element at position ix.
splice(s, ix) == [i \in 1 .. (Len(s) - 1) |-> IF i < ix THEN s[i] ELSE s[i + 1]]

\* The ascending enumeration of a finite set of numbers.
RECURSIVE SetToSeq(_)
SetToSeq(S) ==
  IF S = {} THEN <<>>
  ELSE LET m == CHOOSE x \in S : \A y \in S : x <= y
       IN <<m>> \o SetToSeq(S \ {m})

\* ----------------------------------------------------------- promises
\* A promise, as a cache holds it and as a caller receives it.
NoEntry == [t |-> "none", n |-> 0]
\* Promise.resolve(entity), or a load's promise once it has resolved
Resolved(o) == [t |-> "val", n |-> o]
\* Promise.reject(new Error('Unable to find ...'))
RejectedNotFound == [t |-> "rej", n |-> 0]
\* a load's promise once unmarshalling has failed
RejectedCorrupt == [t |-> "rej", n |-> 1]
\* the pending promise of unmarshallWorkspace / unmarshallPanel, load l
LoadPromise(l) == [t |-> "load", n |-> l]

\* Every holder of promise `from` in f sees it settle as `to`.
Settle(f, from, to) == [i \in DOMAIN f |-> IF f[i] = from THEN to ELSE f[i]]

\* ----------------------------------------------------------- the Cache
\* Cache.fetch(id, supplier): the live entry, or the supplied one stored.
fetch(c, id, supplied) ==
  IF c[id] # NoEntry THEN c ELSE [c EXCEPT ![id] = supplied]

\* Cache.clear(id)
clear(c, id) == [c EXCEPT ![id] = NoEntry]

\* Cache.clear()
clearAll(c) == [id \in DOMAIN c |-> NoEntry]

\* ------------------------------------------------------ JSON and records
\* Workspace record {id, panels, panelOrder}; panel record {id}.
NullWsDto == [id |-> 0, panels |-> {}, panelOrder |-> <<>>]
NullPanelDto == [id |-> 0]

\* localStorage.getItem gives null for a missing key: has = FALSE.
NullWs == [has |-> FALSE, v |-> NullWsDto]
NullPanel == [has |-> FALSE, v |-> NullPanelDto]
NullIds == [has |-> FALSE, v |-> <<>>]

\* JSON.stringify(x): a string, always truthy; JSON.parse gives x back.
stringify(x) == [has |-> TRUE, v |-> x]
parse(s) == s.v

\* marshallWorkspace: the owned panel ids and the ids of panelStack in order,
\* of the object as it is at the moment of the call.
marshallWorkspace(wobjs, pobjs, w) ==
  [id |-> wobjs[w].id,
   panels |-> {p \in PanelIds : wobjs[w].panels[p] # 0},
   panelOrder |-> [i \in 1 .. Len(wobjs[w].panelStack) |-> pobjs[wobjs[w].panelStack[i]].id]]

\* marshallPanel: the back-reference, the mediator and the callback are dropped.
marshallPanel(pobjs, p) == [id |-> pobjs[p].id]

\* ------------------------------------------------------------- state
VARIABLES
  localStorage,    \* the key-value store: the two index keys and one key per record
  workspaceIds,    \* this.workspaceIds
  panelIds,        \* this.panelIds
  workspaceCache,  \* this._workspaceCache
  panelCache,      \* this._panelCache
  wsObjs,          \* the Workspace objects of this page, by handle
  panelObjs,       \* the Panel objects of this page, by handle
  wsLoads,         \* the pending unmarshallWorkspace promises
  panelLoads,      \* the pending unmarshallPanel promises
  thens,           \* the queued callbacks of Workspace.createPanel
  uuid,            \* the ids UUID.uuid4 has given out, per kind
  last,            \* history: the operation that ran last and its arguments
  lastGet          \* history: per id, the still pending promise the latest get returned

vars == <<localStorage, workspaceIds, panelIds, workspaceCache, panelCache, wsObjs,
          panelObjs, wsLoads, panelLoads, thens, uuid, last, lastGet>>

\* The program state the operations read and write, as one value; fit turns
\* FALSE when an operation needs more objects or loads than the bounds allow.
Cur ==
  [ls |-> localStorage, workspaceIds |-> workspaceIds, panelIds |-> panelIds,
   workspaceCache |-> workspaceCache, panelCache |-> panelCache,
   wsObjs |-> wsObjs, panelObjs |-> panelObjs,
   wsLoads |-> wsLoads, panelLoads |-> panelLoads, fit |-> TRUE]

Set(W) ==
  /\ W.fit
  /\ localStorage' = W.ls
  /\ workspaceIds' = W.workspaceIds
  /\ panelIds' = W.panelIds
  /\ workspaceCache' = W.workspaceCache
  /\ panelCache' = W.panelCache
  /\ wsObjs' = W.wsObjs
  /\ panelObjs' = W.panelObjs
  /\ wsLoads' = W.wsLoads
  /\ panelLoads' = W.panelLoads

NoWorkspace == [live |-> FALSE, id |-> 0, panels |-> [p \in PanelIds |-> 0],
                panelStack |-> <<>>, known |-> FALSE]
NoPanel == [live |-> FALSE, id |-> 0, workspace |-> 0, known |-> FALSE]
NoWsLoad == [st |-> "free", id |-> 0, obj |-> 0, dto |-> NullWsDto,
             deps |-> [p \in PanelIds |-> NoEntry]]
NoPanelLoad == [st |-> "free", id |-> 0, obj |-> 0]

\* new Workspace(id, repo)
NewWorkspace(id) == [NoWorkspace EXCEPT !.live = TRUE, !.id = id]

\* new Panel(id, mediator, workspace, ...)
NewPanel(id, w) == [NoPanel EXCEPT !.live = TRUE, !.id = id, !.workspace = w]

\* The first unused handle or load slot, 0 when the bound is reached.
FreeWs(W) ==
  IF \E h \in WsHandles : ~W.wsObjs[h].live
  THEN CHOOSE h \in WsHandles : ~W.wsObjs[h].live /\ \A g \in 1 .. (h - 1) : W.wsObjs[g].live
  ELSE 0
FreePanel(W) ==
  IF \E h \in PanelHandles : ~W.panelObjs[h].live
  THEN CHOOSE h \in PanelHandles :
         ~W.panelObjs[h].live /\ \A g \in 1 .. (h - 1) : W.panelObjs[g].live
  ELSE 0
FreeWsLoad(W) ==
  IF \E l \in WsLoadIds : W.wsLoads[l].st = "free"
  THEN CHOOSE l \in WsLoadIds :
         W.wsLoads[l].st = "free" /\ \A k \in 1 .. (l - 1) : W.wsLoads[k].st # "free"
  ELSE 0
FreePanelLoad(W) ==
  IF \E l \in PanelLoadIds : W.panelLoads[l].st = "free"
  THEN CHOOSE l \in PanelLoadIds :
         W.panelLoads[l].st = "free" /\ \A k \in 1 .. (l - 1) : W.panelLoads[k].st # "free"
  ELSE 0

\* The objects user code holds a reference to: a panel once its promise has
\* resolved and the callbacks queued before the caller's have run; a workspace
\* once its promise has resolved, or through panel.workspace.
KnownPanel(p) == panelObjs[p].live /\ panelObjs[p].known
KnownWs(w) ==
  /\ wsObjs[w].live
  /\ \/ wsObjs[w].known
     \/ \E p \in PanelHandles : KnownPanel(p) /\ panelObjs[p].workspace = w

\* ------------------------------------------------- the repository's code
\* sync with the second setItem left out: the panel index is not flushed.
syncWorkspaceIdsOnly(W) ==
  [W EXCEPT !.ls.workspaceIds = stringify(W.workspaceIds)]

\* sync(): both index keys rewritten from memory.
sync(W) ==
  [W EXCEPT !.ls.workspaceIds = stringify(W.workspaceIds),
            !.ls.panelIds = stringify(W.panelIds)]

\* saveWorkspace with the index test left out.
saveWorkspaceAlwaysPush(W, w) ==
  sync([W EXCEPT !.ls.ws[W.wsObjs[w].id] =
                   stringify(marshallWorkspace(W.wsObjs, W.panelObjs, w)),
                 !.workspaceCache = fetch(@, W.wsObjs[w].id, Resolved(w)),
                 !.workspaceIds = Append(@, W.wsObjs[w].id)])

\* saveWorkspace(workspace)
saveWorkspace(W, w) ==
  LET dto == marshallWorkspace(W.wsObjs, W.panelObjs, w)
      id == W.wsObjs[w].id
      W1 == [W EXCEPT !.ls.ws[id] = stringify(dto)]
  IN IF indexOf(W.workspaceIds, id) = 0
     THEN sync([W1 EXCEPT !.workspaceCache = fetch(@, id, Resolved(w)),
                          !.workspaceIds = Append(@, id)])
     ELSE W1

\* savePanel with the index bookkeeping left out.
savePanelNoIndex(W, p) ==
  [W EXCEPT !.ls.panel[W.panelObjs[p].id] = stringify(marshallPanel(W.panelObjs, p)),
            !.panelCache = fetch(@, W.panelObjs[p].id, Resolved(p))]

\* savePanel(panel)
savePanel(W, p) ==
  LET dto == marshallPanel(W.panelObjs, p)
      id == W.panelObjs[p].id
      W1 == [W EXCEPT !.ls.panel[id] = stringify(dto)]
  IN IF indexOf(W.panelIds, id) = 0
     THEN sync([W1 EXCEPT !.panelCache = fetch(@, id, Resolved(p)),
                          !.panelIds = Append(@, id)])
     ELSE W1

\* unmarshallPanel(dto, workspace): a pending promise of a Panel linked to
\* the workspace.
unmarshallPanel(W, dto, w) ==
  LET l == FreePanelLoad(W)
      o == FreePanel(W)
  IN IF l = 0 \/ o = 0 THEN [W EXCEPT !.fit = FALSE]
     ELSE [W EXCEPT !.panelObjs[o] = NewPanel(dto.id, w),
                    !.panelLoads[l] = [st |-> "pending", id |-> dto.id, obj |-> o]]

\* getPanel with the test for a missing record left out: the loader builds
\* the panel whatever the store holds.
getPanelNoRecordTest(W, panelId, w) ==
  IF W.panelCache[panelId] # NoEntry THEN W
  ELSE LET l == FreePanelLoad(W)
           W1 == unmarshallPanel(W, [id |-> panelId], w)
       IN [W1 EXCEPT !.panelCache = fetch(@, panelId, LoadPromise(l))]

\* getPanel(panelId, workspace): the cached promise, or the loader's: rejected
\* when the record is missing, else unmarshallPanel's.
getPanel(W, panelId, w) ==
  IF W.panelCache[panelId] # NoEntry THEN W
  ELSE IF ~W.ls.panel[panelId].has
       THEN [W EXCEPT !.panelCache = fetch(@, panelId, RejectedNotFound)]
       ELSE LET l == FreePanelLoad(W)
                W1 == unmarshallPanel(W, parse(W.ls.panel[panelId]), w)
            IN [W1 EXCEPT !.panelCache = fetch(@, panelId, LoadPromise(l))]

\* The getPanel calls of unmarshallWorkspace, one per owned panel id.
RECURSIVE getPanels(_, _, _)
getPanels(W, ids, w) ==
  IF ids = <<>> THEN W ELSE getPanels(getPanel(W, Head(ids), w), Tail(ids), w)

\* unmarshallWorkspace(dto): a new Workspace, its panels requested from the
\* panel repository with the workspace as owner; the promise is pending on
\* theirs.
unmarshallWorkspace(W, dto) ==
  LET o == FreeWs(W)
      l == FreeWsLoad(W)
  IN IF l = 0 \/ o = 0 THEN [W EXCEPT !.fit = FALSE]
     ELSE LET W1 == [W EXCEPT !.wsObjs[o] = NewWorkspace(dto.id)]
              W2 == getPanels(W1, SetToSeq(dto.panels), o)
          IN [W2 EXCEPT !.wsLoads[l] =
                [st |-> "pending", id |-> dto.id, obj |-> o, dto |-> dto,
                 deps |-> [p \in PanelIds |->
                             IF p \in dto.panels THEN W2.panelCache[p] ELSE NoEntry]]]

\* getWorkspace with the loader run on every call, the cache not consulted.
getWorkspaceNoCache(W, id) ==
  IF ~W.ls.ws[id].has
  THEN [W EXCEPT !.workspaceCache[id] = RejectedNotFound]
  ELSE LET l == FreeWsLoad(W)
           W1 == unmarshallWorkspace(W, parse(W.ls.ws[id]))
       IN [W1 EXCEPT !.workspaceCache[id] = LoadPromise(l)]

\* getWorkspace(id)
getWorkspace(W, id) ==
  IF W.workspaceCache[id] # NoEntry THEN W
  ELSE IF ~W.ls.ws[id].has
       THEN [W EXCEPT !.workspaceCache = fetch(@, id, RejectedNotFound)]
       ELSE LET l == FreeWsLoad(W)
                W1 == unmarshallWorkspace(W, parse(W.ls.ws[id]))
            IN [W1 EXCEPT !.workspaceCache = fetch(@, id, LoadPromise(l))]

\* removeWorkspace with the index left as it is.
removeWorkspaceKeepsIndex(W, w) ==
  sync([W EXCEPT !.workspaceCache = clear(@, W.wsObjs[w].id),
                 !.ls.ws[W.wsObjs[w].id] = NullWs])

\* removeWorkspace(workspace)
removeWorkspace(W, w) ==
  LET id == W.wsObjs[w].id
      ix == indexOf(W.workspaceIds, id)
      W1 == [W EXCEPT !.workspaceCache = clear(@, id), !.ls.ws[id] = NullWs]
  IN sync(IF ix > 0 THEN [W1 EXCEPT !.workspaceIds = splice(@, ix)] ELSE W1)

\* removeWorkspace called with w or with no workspace (0): workspace.id of
\* undefined throws a TypeError before anything is changed.
removeWorkspaceThrows(w) == w = 0

\* A removeWorkspace that reads the id leniently: with no workspace it clears
\* with no id, which empties the cache, and flushes the indices.
removeWorkspaceCallLenient(W, w) ==
  IF w = 0 THEN sync([W EXCEPT !.workspaceCache = clearAll(@)]) ELSE removeWorkspace(W, w)

removeWorkspaceCall(W, w) == IF removeWorkspaceThrows(w) THEN W ELSE removeWorkspace(W, w)

\* createWorkspace(title): a new id, a new Workspace, saved.
createWorkspace(W, id) ==
  LET o == FreeWs(W)
  IN IF o = 0 THEN [W EXCEPT !.fit = FALSE]
     ELSE saveWorkspace([W EXCEPT !.wsObjs[o] = NewWorkspace(id)], o)

\* The repository's createPanel(mediator, workspace, ...): a new id, a new
\* Panel with the workspace as back-reference, saved.
createPanel(W, id, w) ==
  LET o == FreePanel(W)
  IN IF o = 0 THEN [W EXCEPT !.fit = FALSE]
     ELSE savePanel([W EXCEPT !.panelObjs[o] = NewPanel(id, w)], o)

\* Workspace.removePanel with panelStack left as it is.
wsRemovePanelKeepsStack(W, w, p) ==
  IF W.wsObjs[w].panels[W.panelObjs[p].id] # 0
  THEN saveWorkspace([W EXCEPT !.wsObjs[w].panels[W.panelObjs[p].id] = 0], w)
  ELSE W

\* Workspace.removePanel(panel): the save runs before panelStack is spliced.
wsRemovePanel(W, w, p) ==
  LET id == W.panelObjs[p].id
      W1 == IF W.wsObjs[w].panels[id] # 0
            THEN saveWorkspace([W EXCEPT !.wsObjs[w].panels[id] = 0], w)
            ELSE W
      ix == indexOf(W1.wsObjs[w].panelStack, p)
  IN IF ix > 0 THEN [W1 EXCEPT !.wsObjs[w].panelStack = splice(@, ix)] ELSE W1

\* Workspace.activatePanel with the earlier occurrence left in panelStack.
wsActivatePanelNoSplice(W, w, p) ==
  IF W.wsObjs[w].panels[W.panelObjs[p].id] # 0
  THEN [W EXCEPT !.wsObjs[w].panelStack = Append(@, p)]
  ELSE W

\* Workspace.activatePanel without the test that the panel is owned.
wsActivatePanelNoGuard(W, w, p) ==
  LET ix == indexOf(W.wsObjs[w].panelStack, p)
      st == IF ix > 0 THEN splice(W.wsObjs[w].panelStack, ix) ELSE W.wsObjs[w].panelStack
  IN [W EXCEPT !.wsObjs[w].panelStack = Append(st, p)]

\* Workspace.activatePanel(panel)
wsActivatePanel(W, w, p) ==
  IF W.wsObjs[w].panels[W.panelObjs[p].id] # 0
  THEN LET ix == indexOf(W.wsObjs[w].panelStack, p)
           st == IF ix > 0 THEN splice(W.wsObjs[w].panelStack, ix)
                 ELSE W.wsObjs[w].panelStack
       IN [W EXCEPT !.wsObjs[w].panelStack = Append(st, p)]
  ELSE W

\* The createPanel callback with the panel put at the head of panelStack.
wsCreatePanelThenAtHead(W, w, p) ==
  [W EXCEPT !.wsObjs[w].panels[W.panelObjs[p].id] = p,
            !.wsObjs[w].panelStack = <<p>> \o @,
            !.panelObjs[p].known = TRUE]

\* The callback Workspace.createPanel queues on the panel's promise.
wsCreatePanelThen(W, w, p) ==
  [W EXCEPT !.wsObjs[w].panels[W.panelObjs[p].id] = p,
            !.wsObjs[w].panelStack = Append(@, p),
            !.panelObjs[p].known = TRUE]

\* removePanel with the cache entry left in place.
removePanelKeepsCache(W, p, w) ==
  LET id == W.panelObjs[p].id
      W1 == IF w # 0 THEN wsRemovePanel(W, w, p) ELSE W
      ix == indexOf(W1.panelIds, id)
      W2 == [W1 EXCEPT !.ls.panel[id] = NullPanel]
  IN sync(IF ix > 0 THEN [W2 EXCEPT !.panelIds = splice(@, ix)] ELSE W2)

\* The repository's removePanel(panel, workspace), panel given; w = 0 stands
\* for a call without a workspace.
removePanel(W, p, w) ==
  LET id == W.panelObjs[p].id
      W1 == IF w # 0 THEN wsRemovePanel(W, w, p) ELSE W
      ix == indexOf(W1.panelIds, id)
      W2 == [W1 EXCEPT !.panelCache = clear(@, id), !.ls.panel[id] = NullPanel]
  IN sync(IF ix > 0 THEN [W2 EXCEPT !.panelIds = splice(@, ix)] ELSE W2)

\* removePanel called with p or with no panel (0): the test of the panel
\* throws a TypeError before anything is changed.
removePanelThrows(p) == p = 0

removePanelCall(W, p, w) == IF removePanelThrows(p) THEN W ELSE removePanel(W, p, w)

\* reset with the second loop left out: the panel records stay.
resetKeepsPanelRecords(W) ==
  [W EXCEPT !.ls.ws = [i \in WsIds |-> IF i \in Range(W.workspaceIds) THEN NullWs ELSE @[i]],
            !.ls.workspaceIds = NullIds,
            !.workspaceIds = <<>>,
            !.workspaceCache = clearAll(@),
            !.ls.panelIds = NullIds,
            !.panelIds = <<>>,
            !.panelCache = clearAll(@)]

\* reset(): the records of the indexed ids and the two index keys removed,
\* the indices and the caches emptied.
reset(W) ==
  [W EXCEPT !.ls.ws = [i \in WsIds |-> IF i \in Range(W.workspaceIds) THEN NullWs ELSE @[i]],
            !.ls.workspaceIds = NullIds,
            !.workspaceIds = <<>>,
            !.workspaceCache = clearAll(@),
            !.ls.panel = [i \in PanelIds |-> IF i \in Range(W.panelIds) THEN NullPanel ELSE @[i]],
            !.ls.panelIds = NullIds,
            !.panelIds = <<>>,
            !.panelCache = clearAll(@)]

\* unmarshallPanel's promise resolves: the panel is built, and every holder
\* of the promise sees it resolved.
panelLoadResolves(W, l) ==
  LET o == W.panelLoads[l].obj
  IN [W EXCEPT !.panelLoads[l] = NoPanelLoad,
               !.panelObjs[o].known = TRUE,
               !.panelCache = Settle(@, LoadPromise(l), Resolved(o)),
               !.wsLoads = [k \in WsLoadIds |->
                              [@[k] EXCEPT !.deps = Settle(@, LoadPromise(l), Resolved(o))]]]

\* The rejection of unmarshallPanel's promise with the catch of getPanel left
\* out: the rejected promise stays in the cache.
panelLoadRejectsKeepsEntry(W, l) ==
  [W EXCEPT !.panelLoads[l] = NoPanelLoad,
            !.panelObjs[W.panelLoads[l].obj] = NoPanel,
            !.panelCache = Settle(@, LoadPromise(l), RejectedCorrupt),
            !.wsLoads = [k \in WsLoadIds |->
                           [@[k] EXCEPT !.deps = Settle(@, LoadPromise(l), RejectedCorrupt)]]]

\* unmarshallPanel's promise rejects: getPanel's catch clears the id, and
\* every holder of the promise sees it rejected.
panelLoadRejects(W, l) ==
  [W EXCEPT !.panelLoads[l] = NoPanelLoad,
            !.panelObjs[W.panelLoads[l].obj] = NoPanel,
            !.panelCache = Settle(clear(@, W.panelLoads[l].id), LoadPromise(l), RejectedCorrupt),
            !.wsLoads = [k \in WsLoadIds |->
                           [@[k] EXCEPT !.deps = Settle(@, LoadPromise(l), RejectedCorrupt)]]]

\* unmarshallWorkspace's promise resolves, every panel promise having resolved:
\* panels holds the owned panels, panelStack the persisted order of them.
wsLoadResolves(W, l) ==
  LET ld == W.wsLoads[l]
      order == SelectSeq(ld.dto.panelOrder, LAMBDA p : p \in ld.dto.panels)
  IN [W EXCEPT !.wsLoads[l] = NoWsLoad,
               !.wsObjs[ld.obj] =
                  [@ EXCEPT !.panels = [p \in PanelIds |->
                                          IF p \in ld.dto.panels THEN ld.deps[p].n ELSE 0],
                            !.panelStack = [i \in 1 .. Len(order) |-> ld.deps[order[i]].n],
                            !.known = TRUE],
               !.workspaceCache = Settle(@, LoadPromise(l), Resolved(ld.obj))]

\* unmarshallWorkspace's promise rejects, a panel promise having rejected:
\* getWorkspace's catch clears the id.  The Workspace stays only as the
\* back-reference of the panels loaded for it.
wsLoadRejects(W, l) ==
  LET ld == W.wsLoads[l]
      held == \E p \in PanelHandles : W.panelObjs[p].live /\ W.panelObjs[p].workspace = ld.obj
  IN [W EXCEPT !.wsLoads[l] = NoWsLoad,
               !.wsObjs[ld.obj] = IF held THEN @ ELSE NoWorkspace,
               !.workspaceCache = Settle(clear(@, ld.id), LoadPromise(l), RejectedCorrupt)]

\* The constructor, on the store as the page before left it: nothing in memory
\* but the two indices read back.
construct(ls) ==
  [ls |-> ls,
   workspaceIds |-> IF ls.workspaceIds.has THEN parse(ls.workspaceIds) ELSE <<>>,
   panelIds |-> IF ls.panelIds.has THEN parse(ls.panelIds) ELSE <<>>,
   workspaceCache |-> [i \in WsIds |-> NoEntry],
   panelCache |-> [i \in PanelIds |-> NoEntry],
   wsObjs |-> [h \in WsHandles |-> NoWorkspace],
   panelObjs |-> [h \in PanelHandles |-> NoPanel],
   wsLoads |-> [l \in WsLoadIds |-> NoWsLoad],
   panelLoads |-> [l \in PanelLoadIds |-> NoPanelLoad],
   fit |-> TRUE]

EmptyStorage ==
  [workspaceIds |-> NullIds, panelIds |-> NullIds,
   ws |-> [i \in WsIds |-> NullWs], panel |-> [i \in PanelIds |-> NullPanel]]

\* ------------------------------------------------------------ history
\* What an operation leaves in last: its name, the kind and id of the entity,
\* the entity object and the workspace object it was given (0: none), and
\*   after:   for a get, whether the operation right before it was a save
\*            ("save") or a remove ("remove") of the same id; obj is then the
\*            entity that was saved or removed;
\*   existed: for a remove, the entity had a record and an index entry before
\*            (kept by a get that follows it); for a save, likewise; for a
\*            create, the new id had one of them before; for a reset, some
\*            record existed before;
\*   owned:   for an operation on a panel and a workspace, the workspace held
\*            the panel in panels before;
\*   again:   for a get, the promise an earlier get of the id returned was
\*            still pending when it was called.
\* lastGet keeps, per id, the pending load the last get of the id returned (l),
\* whether a remove or reset evicted it since (ev), and whether the cache
\* entry of the id is the promise of a load that succeeded (ok), and whether
\* a record of the id was ever written (saved).
Blank ==
  [op |-> "none", kind |-> "none", id |-> 0, obj |-> 0, warg |-> 0, after |-> "none",
   existed |-> FALSE, owned |-> FALSE, again |-> FALSE]

Did(op, kind, id, obj, warg) ==
  [Blank EXCEPT !.op = op, !.kind = kind, !.id = id, !.obj = obj, !.warg = warg]

\* The entity of the kind with the id has a record or an index entry.
Stored(kind, id) ==
  IF kind = "ws"
  THEN localStorage.ws[id].has \/ id \in Range(workspaceIds)
  ELSE localStorage.panel[id].has \/ id \in Range(panelIds)

\* The entity of the kind with the id has a record and an index entry.
Exists(kind, id) ==
  IF kind = "ws"
  THEN localStorage.ws[id].has /\ id \in Range(workspaceIds)
  ELSE localStorage.panel[id].has /\ id \in Range(panelIds)

\* Workspace object w holds panel object p in panels.
Owns(w, p) == w # 0 /\ wsObjs[w].panels[panelObjs[p].id] = p

After(kind, id) ==
  IF last.kind = kind /\ last.id = id /\ last.op \in {"save", "create"} THEN "save"
  ELSE IF last.kind = kind /\ last.id = id /\ last.op = "remove" THEN "remove"
  ELSE "none"

NoGet == [l |-> 0, ev |-> FALSE, ok |-> FALSE, saved |-> FALSE]
NoGets == [ws |-> [i \in WsIds |-> NoGet], panel |-> [i \in PanelIds |-> NoGet]]

\* lastGet keeps a promise only while it is pending; ok stays while the cache
\* entry of the id stays what it is; saved stays once a record was written.
NormGet(g, W) ==
  [ws |-> [i \in WsIds |->
            [(IF g.ws[i].l # 0 /\ W.wsLoads[g.ws[i].l].st = "pending" THEN g.ws[i] ELSE NoGet)
               EXCEPT !.ok = lastGet.ws[i].ok /\ W.workspaceCache[i] = workspaceCache[i],
                      !.saved = lastGet.ws[i].saved \/ W.ls.ws[i].has]],
   panel |-> [i \in PanelIds |->
            [(IF g.panel[i].l # 0 /\ W.panelLoads[g.panel[i].l].st = "pending"
              THEN g.panel[i] ELSE NoGet)
               EXCEPT !.ok = lastGet.panel[i].ok /\ W.panelCache[i] = panelCache[i],
                      !.saved = lastGet.panel[i].saved \/ W.ls.panel[i].has]]]

\* The load of the id succeeded: ok holds when the cache held its promise.
Loaded(g, kind, id, held) ==
  IF kind = "ws" THEN [g EXCEPT !.ws[id].ok = held] ELSE [g EXCEPT !.panel[id].ok = held]

\* A remove or reset evicted the ids in S of the kind.
Evict(g, kind, S) ==
  IF kind = "ws"
  THEN [g EXCEPT !.ws = [i \in WsIds |->
                           IF i \in S /\ @[i].l # 0 THEN [@[i] EXCEPT !.ev = TRUE] ELSE @[i]]]
  ELSE [g EXCEPT !.panel = [i \in PanelIds |->
                           IF i \in S /\ @[i].l # 0 THEN [@[i] EXCEPT !.ev = TRUE] ELSE @[i]]]

AsGet(e) ==
  IF e.t = "load" THEN [l |-> e.n, ev |-> FALSE, ok |-> FALSE, saved |-> FALSE] ELSE NoGet

\* ------------------------------------------------------------- actions
\* The repository constructed on an empty store.
Init ==
  /\ localStorage = EmptyStorage
  /\ workspaceIds = construct(EmptyStorage).workspaceIds
  /\ panelIds = construct(EmptyStorage).panelIds
  /\ workspaceCache = construct(EmptyStorage).workspaceCache
  /\ panelCache = construct(EmptyStorage).panelCache
  /\ wsObjs = construct(EmptyStorage).wsObjs
  /\ panelObjs = construct(EmptyStorage).panelObjs
  /\ wsLoads = construct(EmptyStorage).wsLoads
  /\ panelLoads = construct(EmptyStorage).panelLoads
  /\ thens = <<>>
  /\ uuid = [ws |-> 0, panel |-> 0]
  /\ last = Blank
  /\ lastGet = NoGets

\* A page load: the constructor runs on the store as it is; the objects and
\* promises of the page before are gone.  The callbacks of createPanel hang on
\* a resolved promise and run before the task that queued them ends, so no
\* page load finds one queued.
Construct ==
  /\ thens = <<>>
  /\ Set(construct(localStorage))
  /\ thens' = <<>>
  /\ uuid' = uuid
  /\ last' = Did("construct", "none", 0, 0, 0)
  /\ lastGet' = NormGet(NoGets, construct(localStorage))

CreateWorkspace ==
  /\ uuid.ws < MaxWsId
  /\ LET id == uuid.ws + 1
         o == FreeWs(Cur)
         W == createWorkspace(Cur, id)
     IN /\ W.fit
        /\ Set([W EXCEPT !.wsObjs[o].known = TRUE])
        /\ uuid' = [uuid EXCEPT !.ws = id]
        /\ last' = [Did("create", "ws", id, o, 0) EXCEPT !.existed = Stored("ws", id)]
        /\ lastGet' = NormGet(lastGet, W)
  /\ thens' = thens

SaveWorkspace ==
  \E w \in WsHandles :
    /\ KnownWs(w)
    /\ LET W == saveWorkspace(Cur, w)
       IN /\ Set(W)
          /\ last' = [Did("save", "ws", wsObjs[w].id, w, 0)
                        EXCEPT !.existed = Exists("ws", wsObjs[w].id)]
          /\ lastGet' = NormGet(lastGet, W)
    /\ UNCHANGED <<thens, uuid>>

\* getWorkspace(id), for an id uuid4 has given out or an id no entity has.
GetWorkspace ==
  \E id \in WsIds :
    /\ id <= uuid.ws + 1
    /\ uuid' = [uuid EXCEPT !.ws = IF id > @ THEN id ELSE @]
    /\ thens' = thens
    /\ LET W == getWorkspace(Cur, id)
           res == W.workspaceCache[id]
           asked == IF workspaceCache[id] = NoEntry /\ localStorage.ws[id].has
                    THEN parse(localStorage.ws[id]).panels ELSE {}
           g == [lastGet EXCEPT
                   !.ws[id] = AsGet(res),
                   !.panel = [p \in PanelIds |->
                                IF p \in asked THEN AsGet(W.panelCache[p]) ELSE @[p]]]
       IN /\ Set(W)
          /\ last' = [Did("get", "ws", id, IF After("ws", id) = "none" THEN 0 ELSE last.obj, 0)
                        EXCEPT !.after = After("ws", id),
                               !.existed = After("ws", id) = "remove" /\ last.existed,
                               !.again = lastGet.ws[id].l # 0]
          /\ lastGet' = NormGet(g, W)

RemoveWorkspace ==
  \E w \in WsHandles :
    /\ KnownWs(w)
    /\ LET W == removeWorkspace(Cur, w)
       IN /\ Set(W)
          /\ last' = [Did("remove", "ws", wsObjs[w].id, w, 0)
                        EXCEPT !.existed = Exists("ws", wsObjs[w].id)]
          /\ lastGet' = NormGet(Evict(lastGet, "ws", {wsObjs[w].id}), W)
    /\ UNCHANGED <<thens, uuid>>

\* Panel.onChange: a change of the panel saves it.
SavePanel ==
  \E p \in PanelHandles :
    /\ KnownPanel(p)
    /\ LET W == savePanel(Cur, p)
       IN /\ Set(W)
          /\ last' = [Did("save", "panel", panelObjs[p].id, p, 0)
                        EXCEPT !.existed = Exists("panel", panelObjs[p].id)]
          /\ lastGet' = NormGet(lastGet, W)
    /\ UNCHANGED <<thens, uuid>>

\* getPanel(id, workspace), for an id uuid4 has given out or an id no entity
\* has.
GetPanel ==
  \E id \in PanelIds, w \in WsHandles :
    /\ id <= uuid.panel + 1
    /\ uuid' = [uuid EXCEPT !.panel = IF id > @ THEN id ELSE @]
    /\ thens' = thens
    /\ KnownWs(w)
    /\ LET W == getPanel(Cur, id, w)
       IN /\ Set(W)
          /\ last' = [Did("get", "panel", id,
                            IF After("panel", id) = "none" THEN 0 ELSE last.obj, w)
                        EXCEPT !.after = After("panel", id),
                               !.existed = After("panel", id) = "remove" /\ last.existed,
                               !.again = lastGet.panel[id].l # 0]
          /\ lastGet' = NormGet([lastGet EXCEPT !.panel[id] = AsGet(W.panelCache[id])], W)

RemovePanel ==
  \E p \in PanelHandles, w \in {0} \cup WsHandles :
    /\ KnownPanel(p)
    /\ w # 0 => KnownWs(w)
    /\ LET W == removePanel(Cur, p, w)
       IN /\ Set(W)
          /\ last' = [Did("remove", "panel", panelObjs[p].id, p, w)
                        EXCEPT !.existed = Exists("panel", panelObjs[p].id),
                               !.owned = Owns(w, p)]
          /\ lastGet' = NormGet(Evict(lastGet, "panel", {panelObjs[p].id}), W)
    /\ UNCHANGED <<thens, uuid>>

\* removeWorkspace() and removePanel(undefined, workspace) with no entity.
RemoveWorkspaceAbsent ==
  /\ LET W == removeWorkspaceCall(Cur, 0)
     IN /\ Set(W)
        /\ last' = Did(IF removeWorkspaceThrows(0) THEN "threw" ELSE "removeAbsent",
                       "ws", 0, 0, 0)
        /\ lastGet' = NormGet(lastGet, W)
  /\ UNCHANGED <<thens, uuid>>

RemovePanelAbsent ==
  \E w \in {0} \cup WsHandles :
    /\ w # 0 => KnownWs(w)
    /\ LET W == removePanelCall(Cur, 0, w)
       IN /\ Set(W)
          /\ last' = Did(IF removePanelThrows(0) THEN "threw" ELSE "removeAbsent",
                         "panel", 0, 0, w)
          /\ lastGet' = NormGet(lastGet, W)
    /\ UNCHANGED <<thens, uuid>>

Reset ==
  /\ LET W == reset(Cur)
     IN /\ Set(W)
        /\ last' = [Did("reset", "none", 0, 0, 0)
                      EXCEPT !.existed = \E i \in WsIds, j \in PanelIds :
                                           Exists("ws", i) /\ Exists("panel", j)]
        /\ lastGet' = NormGet(Evict(Evict(lastGet, "ws", WsIds), "panel", PanelIds), W)
  /\ UNCHANGED <<thens, uuid>>

\* Workspace.createPanel(mediator, content): the repository creates and saves
\* the panel; the callback that registers it is queued.
WsCreatePanel ==
  \E w \in WsHandles :
    /\ KnownWs(w)
    /\ uuid.panel < MaxPanelId
    /\ LET id == uuid.panel + 1
           p == FreePanel(Cur)
           W == createPanel(Cur, id, w)
       IN /\ Set(W)
          /\ uuid' = [uuid EXCEPT !.panel = id]
          /\ thens' = Append(thens, <<w, p>>)
          /\ last' = [Did("create", "panel", id, p, w) EXCEPT !.existed = Stored("panel", id)]
          /\ lastGet' = NormGet(lastGet, W)

\* The oldest queued createPanel callback runs.
WsCreatePanelThen ==
  /\ thens # <<>>
  /\ LET w == Head(thens)[1]
         p == Head(thens)[2]
         W == wsCreatePanelThen(Cur, w, p)
     IN /\ Set(W)
        /\ last' = Did("registered", "panel", panelObjs[p].id, p, w)
        /\ lastGet' = NormGet(lastGet, W)
  /\ thens' = Tail(thens)
  /\ uuid' = uuid

WsRemovePanel ==
  \E w \in WsHandles, p \in PanelHandles :
    /\ KnownWs(w)
    /\ KnownPanel(p)
    /\ LET W == wsRemovePanel(Cur, w, p)
       IN /\ Set(W)
          /\ last' = [Did("wsRemovePanel", "panel", panelObjs[p].id, p, w)
                        EXCEPT !.owned = Owns(w, p)]
          /\ lastGet' = NormGet(lastGet, W)
    /\ UNCHANGED <<thens, uuid>>

WsActivatePanel ==
  \E w \in WsHandles, p \in PanelHandles :
    /\ KnownWs(w)
    /\ KnownPanel(p)
    /\ LET W == wsActivatePanel(Cur, w, p)
       IN /\ Set(W)
          /\ last' = [Did("wsActivatePanel", "panel", panelObjs[p].id, p, w)
                        EXCEPT !.owned = Owns(w, p)]
          /\ lastGet' = NormGet(lastGet, W)
    /\ UNCHANGED <<thens, uuid>>

PanelLoadResolves ==
  \E l \in PanelLoadIds :
    /\ panelLoads[l].st = "pending"
    /\ LET W == panelLoadResolves(Cur, l)
       IN /\ Set(W)
          /\ last' = Did("resolved", "panel", panelLoads[l].id, panelLoads[l].obj, 0)
          /\ lastGet' = Loaded(NormGet(lastGet, W), "panel", panelLoads[l].id,
                                panelCache[panelLoads[l].id] = LoadPromise(l))
    /\ UNCHANGED <<thens, uuid>>

PanelLoadRejects ==
  \E l \in PanelLoadIds :
    /\ panelLoads[l].st = "pending"
    /\ LET W == panelLoadRejects(Cur, l)
       IN /\ Set(W)
          /\ last' = Did("rejected", "panel", panelLoads[l].id, 0, 0)
          /\ lastGet' = NormGet(lastGet, W)
    /\ UNCHANGED <<thens, uuid>>

WsLoadResolves ==
  \E l \in WsLoadIds :
    /\ wsLoads[l].st = "pending"
    /\ \A p \in wsLoads[l].dto.panels : wsLoads[l].deps[p].t = "val"
    /\ LET W == wsLoadResolves(Cur, l)
       IN /\ Set(W)
          /\ last' = Did("resolved", "ws", wsLoads[l].id, wsLoads[l].obj, 0)
          /\ lastGet' = Loaded(NormGet(lastGet, W), "ws", wsLoads[l].id,
                                workspaceCache[wsLoads[l].id] = LoadPromise(l))
    /\ UNCHANGED <<thens, uuid>>

WsLoadRejects ==
  \E l \in WsLoadIds :
    /\ wsLoads[l].st = "pending"
    /\ \E p \in wsLoads[l].dto.panels : wsLoads[l].deps[p].t = "rej"
    /\ LET W == wsLoadRejects(Cur, l)
       IN /\ Set(W)
          /\ last' = Did("rejected", "ws", wsLoads[l].id, 0, 0)
          /\ lastGet' = NormGet(lastGet, W)
    /\ UNCHANGED <<thens, uuid>>

Next ==
  \/ Construct
  \/ CreateWorkspace
  \/ SaveWorkspace
  \/ GetWorkspace
  \/ RemoveWorkspace
  \/ SavePanel
  \/ GetPanel
  \/ RemovePanel
  \/ RemoveWorkspaceAbsent
  \/ RemovePanelAbsent
  \/ Reset
  \/ WsCreatePanel
  \/ WsCreatePanelThen
  \/ WsRemovePanel
  \/ WsActivatePanel
  \/ PanelLoadResolves
  \/ PanelLoadRejects
  \/ WsLoadResolves
  \/ WsLoadRejects

Spec == Init /\ [][Next]_vars

\* The callbacks queued on a resolved promise always get to run.
LiveSpec == Spec /\ WF_vars(WsCreatePanelThen)

\* ------------------------------------------------------------- claims
CacheOf(kind) == IF kind = "ws" THEN workspaceCache ELSE panelCache
IndexOf(kind) == IF kind = "ws" THEN workspaceIds ELSE panelIds
HasRecord(kind, id) == IF kind = "ws" THEN localStorage.ws[id].has ELSE localStorage.panel[id].has

\* The entity a pending or resolved promise is the promise of (0: none).
EntityOf(kind, e) ==
  CASE e.t = "val" -> e.n
    [] e.t = "load" -> IF kind = "ws" THEN wsLoads[e.n].obj ELSE panelLoads[e.n].obj
    [] OTHER -> 0

\* C1: for each kind, the ids in the in-memory index are exactly the ids that
\* have a record in the store.
C1_IndexMatchesRecords ==
  /\ Range(workspaceIds) = {i \in WsIds : localStorage.ws[i].has}
  /\ Range(panelIds) = {i \in PanelIds : localStorage.panel[i].has}

\* C1 witness: a panel was removed while another panel and a workspace stay
\* indexed and stored.
C1_Witness ==
  /\ last.op = "remove" /\ last.kind = "panel" /\ last.existed
  /\ Len(panelIds) = 1 /\ Len(workspaceIds) = 1

\* C2: after a get that failed for a missing record, the id is not in the
\* cache (so the next get reads the store again).
C2_MissingRecordFailureEvicted ==
  last.op = "get" => CacheOf(last.kind)[last.id] # RejectedNotFound

\* C3: a get right after a save of entity e returns the cached promise of e.
C3_GetAfterSaveGivesEntity ==
  (last.op = "get" /\ last.after = "save")
    => EntityOf(last.kind, CacheOf(last.kind)[last.id]) = last.obj

\* C4 as claimed: a get of an id whose earlier get is still pending returns
\* that same pending promise and does not run the loader, whatever ran between.
C4_SingleFlightWhateverInterleaved ==
  [][/\ \A id \in WsIds :
          (last'.op = "get" /\ last'.kind = "ws" /\ last'.id = id /\ lastGet.ws[id].l # 0)
            => /\ workspaceCache[id] # NoEntry
               /\ workspaceCache'[id] = LoadPromise(lastGet.ws[id].l)
     /\ \A id \in PanelIds :
          (last'.op = "get" /\ last'.kind = "panel" /\ last'.id = id /\ lastGet.panel[id].l # 0)
            => /\ panelCache[id] # NoEntry
               /\ panelCache'[id] = LoadPromise(lastGet.panel[id].l)]_vars

\* C4 as amended: a get of an id whose earlier get is still pending returns
\* that same pending promise and does not run the loader, provided no remove
\* of the id and no reset ran between the two.
C4_SingleFlightUnlessEvicted ==
  [][/\ \A id \in WsIds :
          (/\ last'.op = "get" /\ last'.kind = "ws" /\ last'.id = id
           /\ lastGet.ws[id].l # 0 /\ ~lastGet.ws[id].ev)
            => /\ workspaceCache[id] # NoEntry
               /\ workspaceCache'[id] = LoadPromise(lastGet.ws[id].l)
     /\ \A id \in PanelIds :
          (/\ last'.op = "get" /\ last'.kind = "panel" /\ last'.id = id
           /\ lastGet.panel[id].l # 0 /\ ~lastGet.panel[id].ev)
            => /\ panelCache[id] # NoEntry
               /\ panelCache'[id] = LoadPromise(lastGet.panel[id].l)]_vars

\* C4 witness: a get was called while an earlier get of the id was pending,
\* and it returned a pending promise.
C4_Witness ==
  /\ last.op = "get" /\ last.again
  /\ CacheOf(last.kind)[last.id].t = "load"

\* C5: after a remove the id is in neither the index nor the store, and a get
\* that follows the remove fails with NotFound.
C5_RemovedIsGone ==
  /\ last.op = "remove"
       => /\ last.id \notin Range(IndexOf(last.kind))
          /\ ~HasRecord(last.kind, last.id)
  /\ (last.op = "get" /\ last.after = "remove")
       => /\ CacheOf(last.kind)[last.id] = RejectedNotFound
          /\ last.id \notin Range(IndexOf(last.kind))
          /\ ~HasRecord(last.kind, last.id)

\* C5 witness: a get right after the remove of a stored workspace.
C5_Witness ==
  last.op = "get" /\ last.after = "remove" /\ last.existed /\ last.kind = "ws"

\* C6: after Workspace.removePanel(p) of an owned panel, p is in neither
\* panels nor panelStack, and the stored record of the workspace lists p.id
\* neither as an owned panel nor in the panel order.
C6_RemovePanelPersisted ==
  (last.op = "wsRemovePanel" /\ last.owned)
    => LET w == last.warg
           rec == localStorage.ws[wsObjs[w].id]
       IN /\ wsObjs[w].panels[last.id] = 0
          /\ last.obj \notin Range(wsObjs[w].panelStack)
          /\ rec.has
          /\ last.id \notin parse(rec).panels
          /\ last.id \notin Range(parse(rec).panelOrder)

\* C7 as claimed: after the repository's removePanel(p, ...), no workspace
\* holds p in panels or panelStack.
C7_RemoveDetachesFromOwner ==
  (last.op = "remove" /\ last.kind = "panel")
    => \A h \in WsHandles :
         wsObjs[h].live =>
           /\ wsObjs[h].panels[last.id] # last.obj
           /\ last.obj \notin Range(wsObjs[h].panelStack)

\* C7 as amended: after the repository's removePanel(p, w) with w a workspace
\* that holds p in panels, p is in neither panels nor panelStack of w, and w
\* was saved: its record exists and does not list p.id as owned.
C7_RemoveDetachesFromGivenOwner ==
  (last.op = "remove" /\ last.kind = "panel" /\ last.owned)
    => LET w == last.warg
           rec == localStorage.ws[wsObjs[w].id]
       IN /\ wsObjs[w].panels[last.id] = 0
          /\ last.obj \notin Range(wsObjs[w].panelStack)
          /\ rec.has
          /\ last.id \notin parse(rec).panels

\* C7 witness: a panel was removed through the workspace that held it.
C7_Witness ==
  last.op = "remove" /\ last.kind = "panel" /\ last.owned /\ last.existed

\* C8: in every Workspace, every panel of panelStack has its id as a key of
\* panels.
C8_StackWithinPanels ==
  \A h \in WsHandles :
    wsObjs[h].live =>
      \A p \in Range(wsObjs[h].panelStack) : wsObjs[h].panels[panelObjs[p].id] # 0

\* C8 witness: an owned panel was activated in a workspace whose panelStack is
\* not empty while the callback of a later createPanel is still queued.
C8_Witness ==
  /\ last.op = "wsActivatePanel" /\ last.owned
  /\ thens # <<>>
  /\ wsObjs[last.warg].panelStack # <<>>

\* C9: after reset() both indices and both caches are empty and the store
\* holds no record and neither index key.
C9_ResetWipes ==
  last.op = "reset"
    => /\ workspaceIds = <<>> /\ panelIds = <<>>
       /\ \A i \in WsIds : workspaceCache[i] = NoEntry /\ ~localStorage.ws[i].has
       /\ \A i \in PanelIds : panelCache[i] = NoEntry /\ ~localStorage.panel[i].has
       /\ ~localStorage.workspaceIds.has /\ ~localStorage.panelIds.has

\* C9 witness: a reset of a store that held a workspace and a panel.
C9_Witness == last.op = "reset" /\ last.existed

\* C10: a create returns an entity whose id was not in the index (nor in the
\* store) before, and is in the index with its record stored after.
C10_CreateRegisters ==
  last.op = "create"
    => /\ ~last.existed
       /\ last.id \in Range(IndexOf(last.kind))
       /\ HasRecord(last.kind, last.id)
       /\ IF last.kind = "ws" THEN wsObjs[last.obj].id = last.id
          ELSE panelObjs[last.obj].id = last.id

\* C10 witness: the second panel was created.
C10_Witness == last.op = "create" /\ last.kind = "panel" /\ Len(panelIds) = 2

\* C11: every Workspace.createPanel call is followed by the registration of
\* its panel, and at the moment a panel is registered it is a key of panels
\* and the last element of panelStack of its workspace.
C11_CreatePanelRegistersAtTail ==
  /\ \A i \in PanelIds :
       (last.op = "create" /\ last.kind = "panel" /\ last.id = i)
         ~> (last.op = "registered" /\ last.id = i)
  /\ [](last.op = "registered"
          => /\ wsObjs[last.warg].panels[last.id] = last.obj
             /\ wsObjs[last.warg].panelStack # <<>>
             /\ wsObjs[last.warg].panelStack[Len(wsObjs[last.warg].panelStack)] = last.obj)

\* C11 witness: a panel was registered while the callback of another
\* createPanel call is still queued.
C11_Witness == last.op = "registered" /\ thens # <<>>

C13_SaveIdempotent ==
  /\ [][(last'.op = "save" /\ last'.id \in Range(IndexOf(last'.kind)))
         => IF last'.kind = "ws"
            THEN /\ workspaceIds' = workspaceIds
                 /\ workspaceCache' = workspaceCache
                 /\ localStorage'.ws[last'.id] =
                      stringify(marshallWorkspace(wsObjs, panelObjs, last'.obj))
            ELSE /\ panelIds' = panelIds
                 /\ panelCache' = panelCache
                 /\ localStorage'.panel[last'.id] =
                      stringify(marshallPanel(panelObjs, last'.obj))]_vars
  /\ [](/\ Cardinality(Range(workspaceIds)) = Len(workspaceIds)
        /\ Cardinality(Range(panelIds)) = Len(panelIds))

\* C13 witness: a workspace that was stored and indexed was saved again, with
\* a panel to write into its record.
C13_Witness ==
  /\ last.op = "save" /\ last.kind = "ws" /\ last.existed
  /\ parse(localStorage.ws[last.id]).panels # {}

\* C14: after a load started by get fails, the id has no cache entry, and a
\* get of the id that follows it while the record exists starts a new load;
\* the cache entry of a load that succeeded changes only by a remove of the
\* id, a reset, or the page being loaded anew.
C14_FailedLoadEvictedSuccessKept ==
  /\ [](last.op = "rejected" => CacheOf(last.kind)[last.id] = NoEntry)
  /\ [][(/\ last.op = "rejected" /\ last'.op = "get"
          /\ last'.kind = last.kind /\ last'.id = last.id
          /\ HasRecord(last.kind, last.id))
         => CacheOf(last.kind)'[last.id].t = "load"]_vars
  /\ [][/\ \A i \in WsIds :
            (lastGet.ws[i].ok /\ workspaceCache'[i] # workspaceCache[i])
              => \/ last'.op = "remove" /\ last'.kind = "ws" /\ last'.id = i
                 \/ last'.op \in {"reset", "construct"}
        /\ \A i \in PanelIds :
            (lastGet.panel[i].ok /\ panelCache'[i] # panelCache[i])
              => \/ last'.op = "remove" /\ last'.kind = "panel" /\ last'.id = i
                 \/ last'.op \in {"reset", "construct"}]_vars

\* C14 witness: the load of a workspace failed because the load of one of its
\* panels failed, while the entry of a panel whose load succeeded is cached.
C14_Witness ==
  /\ last.op = "rejected" /\ last.kind = "ws"
  /\ \E i \in PanelIds : lastGet.panel[i].ok /\ panelCache[i].t = "val"

\* C15: a get of an id for which no record was ever written fails with
\* NotFound.
C15_NeverSavedNotFound ==
  /\ (last.op = "get" /\ last.kind = "ws" /\ ~lastGet.ws[last.id].saved)
       => workspaceCache[last.id] = RejectedNotFound
  /\ (last.op = "get" /\ last.kind = "panel" /\ ~lastGet.panel[last.id].saved)
       => panelCache[last.id] = RejectedNotFound

\* C15 witness: a get of a panel id never saved, after another panel was
\* saved, with a workspace in the cache.
C15_Witness ==
  /\ last.op = "get" /\ last.kind = "panel" /\ ~lastGet.panel[last.id].saved
  /\ \E i \in PanelIds : i # last.id /\ lastGet.panel[i].saved
  /\ workspaceCache[1].t = "val"

\* C16: a remove called with no entity, of either kind, throws and leaves
\* the store, both indices and both caches as they were.
C16_RemoveNothingThrows ==
  [][last'.op \in {"threw", "removeAbsent"}
       => /\ last'.op = "threw"
          /\ UNCHANGED <<localStorage, workspaceIds, panelIds, workspaceCache, panelCache>>]_vars

\* C16 witness: removeWorkspace with no workspace threw while the store and the
\* caches hold a workspace and a panel.
C16_Witness ==
  /\ last.op = "threw" /\ last.kind = "ws"
  /\ workspaceIds # <<>> /\ workspaceCache[1] # NoEntry
  /\ \E i \in PanelIds : panelCache[i].t = "val"

\* C17: once a createPanel, removePanel or activatePanel that changed panels
\* or panelStack of a workspace has completed, the stored record of the
\* workspace is the marshalled form of the workspace in memory.
C17_MutationSaved ==
  (\/ last.op = "registered"
   \/ last.op \in {"wsRemovePanel", "wsActivatePanel"} /\ last.owned)
    => localStorage.ws[wsObjs[last.warg].id] =
         stringify(marshallWorkspace(wsObjs, panelObjs, last.warg))

\* C18: the id sequence stored under each index key equals the index in
\* memory, an absent key counting as the empty sequence; and a repository
\* constructed on the store starts with the indices the one before had.
C18_PersistedIndexIsIndex ==
  /\ []( /\ workspaceIds =
             (IF localStorage.workspaceIds.has THEN parse(localStorage.workspaceIds) ELSE <<>>)
         /\ panelIds =
             (IF localStorage.panelIds.has THEN parse(localStorage.panelIds) ELSE <<>>) )
  /\ [][last'.op = "construct"
          => workspaceIds' = workspaceIds /\ panelIds' = panelIds]_vars

\* C18 witness: a repository was constructed on a store that holds a workspace
\* and two panels, one of them removed and saved anew before.
C18_Witness ==
  /\ last.op = "construct"
  /\ workspaceIds = <<1>> /\ panelIds = <<2, 1>>

\* C19: when a pending load fails and the cache entry of its id is no longer
\* the promise of that load but a newer entry, the entry stays in the cache.
C19_StaleFailureKeepsNewerEntry ==
  [][/\ \A l \in WsLoadIds :
          (/\ last'.op = "rejected" /\ last'.kind = "ws"
           /\ wsLoads[l].st = "pending" /\ wsLoads'[l].st = "free"
           /\ workspaceCache[wsLoads[l].id] \notin {NoEntry, LoadPromise(l)})
            => workspaceCache'[wsLoads[l].id] = workspaceCache[wsLoads[l].id]
     /\ \A l \in PanelLoadIds :
          (/\ last'.op = "rejected" /\ last'.kind = "panel"
           /\ panelLoads[l].st = "pending" /\ panelLoads'[l].st = "free"
           /\ panelCache[panelLoads[l].id] \notin {NoEntry, LoadPromise(l)})
            => panelCache'[panelLoads[l].id] = panelCache[panelLoads[l].id]]_vars

\* C20: the repository's removePanel(panel, workspace) adds no id to the
\* workspace index and creates no workspace record.
C20_RemovePanelAddsNoWorkspace ==
  [][(last'.op = "remove" /\ last'.kind = "panel")
       => /\ Range(workspaceIds') \subseteq Range(workspaceIds)
          /\ \A i \in WsIds : localStorage'.ws[i].has => localStorage.ws[i].has]_vars

====
